---- MODULE Spec2Model ----
(***************************************************************************)
(* Model of gns3/modules/vpcs/vpcs_device.py (class VPCSDevice): the       *)
(* settings map of one VPCS device, the requests it hands to the Node base *)
(* class, the callbacks that reconcile server responses, the topology      *)
(* dump/load pair and the startup-script import/export pipeline.           *)
(*                                                                         *)
(* Python values are records [t, s, n]: None, a str (a sequence of code    *)
(* points) or an int.  A dict is a function whose DOMAIN is its key set.   *)
(***************************************************************************)
EXTENDS Integers, Sequences, FiniteSets, TLC

VARIABLES
    settings,   \* self._settings: dict over SettingsKeys
    node_id,    \* self._node_id
    fs,         \* the local file system: dict path -> bytes of the regular files
    inflight,   \* requests handed to the transport and not yet answered
    last,       \* what the most recent operation was given, did and emitted
    orig        \* round trip only: settings of the device that was dumped

vars == <<settings, node_id, fs, inflight, last, orig>>

----------------------------------------------------------------------------
(* Bounds of the model *)

\* at most this many requests wait for their callback at any time
MaxInflight == 1

\* caller-supplied dictionaries carry at most this many keys
MaxKeys == 2

----------------------------------------------------------------------------
(* Python values *)

None == [t |-> "none", s |-> <<>>, n |-> 0]
StrV(s) == [t |-> "str", s |-> s, n |-> 0]
IntV(n) == [t |-> "int", s |-> <<>>, n |-> n]

\* bool(v): None, "" and 0 are falsy
Truthy(v) == \/ v.t = "str" /\ v.s # <<>>
             \/ v.t = "int" /\ v.n # 0

EmptyDict == [k \in {} |-> None]
DictSet(d, k, v) == [x \in DOMAIN d \cup {k} |-> IF x = k THEN v ELSE d[x]]
DictDel(d, k) == [x \in DOMAIN d \ {k} |-> d[x]]
\* dict.get(k): the value, or None when the key is absent
DictGet(d, k) == IF k \in DOMAIN d THEN d[k] ELSE None

\* every dict with at most n keys, each key k drawn from keys with a value of vals[k]
WellTyped(d, vals) == \A k \in DOMAIN d : d[k] \in vals[k]

Dicts(keys, vals, n) ==
    UNION { { d \in [dom -> UNION { vals[k] : k \in dom }] : WellTyped(d, vals) } :
            dom \in { D \in SUBSET keys : Cardinality(D) <= n } }

----------------------------------------------------------------------------
(* Strings (sequences of code points) and paths *)

Slash == <<47>>                                                \* "/"
StartupSuffix == <<95, 115, 116, 97, 114, 116, 117, 112, 46, 118, 112, 99>>  \* "_startup.vpc"
NameP1 == <<80, 32, 49>>                                       \* "P 1"
NameQ == <<81>>                                                \* "Q"
ScriptE == <<233>>                                             \* "e" with acute accent, U+00E9
DirD == <<47, 100>>                                            \* "/d", an existing directory
DirX == <<47, 120>>                                            \* "/x", no such directory
FileF == <<47, 100, 47, 102>>                                  \* "/d/f"
FileXF == <<47, 120, 47, 102>>                                 \* "/x/f"
FileG == <<47, 100, 47, 103>>                                  \* "/d/g"
RelF == <<102>>                                                \* "f"
MsgM == <<109>>                                                \* "m"
IdN1 == <<110, 49>>                                            \* "n1"
IdN2 == <<110, 50>>                                            \* "n2"
IdN3 == <<110, 51>>                                            \* "n3"

\* the directories that exist (none is created or removed by this component)
ExistingDirs == {DirD}

\* index of the last "/" of p, 0 when there is none
RECURSIVE LastSlash(_, _)
LastSlash(p, i) == IF i = 0 THEN 0 ELSE IF p[i] = 47 THEN i ELSE LastSlash(p, i - 1)

\* os.path.basename
Basename(p) == SubSeq(p, LastSlash(p, Len(p)) + 1, Len(p))

\* os.path.dirname
Dirname(p) ==
    LET i == LastSlash(p, Len(p)) IN
    IF i = 0 THEN <<>> ELSE IF i = 1 THEN Slash ELSE SubSeq(p, 1, i - 1)

\* os.path.join(a, b)
PathJoin(a, b) ==
    IF b # <<>> /\ b[1] = 47 THEN b
    ELSE IF a = <<>> \/ a[Len(a)] = 47 THEN a \o b
    ELSE a \o Slash \o b

\* gns3.utils.normalize_filename: a file-system safe name (letters, digits,
\* "-", "." and "_" are kept, every other character becomes "_")
SafeChar(c) == \/ c \in 48..57 \/ c \in 65..90 \/ c \in 97..122
               \/ c \in {45, 46, 95}
normalize_filename(name) == [i \in 1..Len(name) |-> IF SafeChar(name[i]) THEN name[i] ELSE 95]

\* str.encode("utf-8")
RECURSIVE Utf8Encode(_)
Utf8Encode(s) ==
    IF s = <<>> THEN <<>>
    ELSE LET c == Head(s)
             b == IF c < 128 THEN <<c>>
                  ELSE IF c < 2048 THEN <<192 + (c \div 64), 128 + (c % 64)>>
                  ELSE <<224 + (c \div 4096), 128 + ((c \div 64) % 64), 128 + (c % 64)>>
         IN b \o Utf8Encode(Tail(s))

\* bytes.decode("utf-8") of one- and two-byte sequences; <<-1>> marks a decode error
RECURSIVE Utf8Decode(_)
Utf8Decode(b) ==
    IF b = <<>> THEN <<>>
    ELSE IF b[1] < 128
         THEN LET r == Utf8Decode(Tail(b)) IN IF r = <<-1>> THEN r ELSE <<b[1]>> \o r
    ELSE IF b[1] \in 194..223 /\ Len(b) >= 2 /\ b[2] \in 128..191
         THEN LET r == Utf8Decode(SubSeq(b, 3, Len(b)))
              IN IF r = <<-1>> THEN r ELSE <<(b[1] - 192) * 64 + (b[2] - 128)>> \o r
    ELSE <<-1>>

\* os.path.isfile
IsFile(files, p) == p \in DOMAIN files

\* os.listdir(directory), for a directory that exists
ListDir(files, directory) == { Basename(p) : p \in { q \in DOMAIN files : Dirname(q) = directory } }

\* Node._readBaseConfig: the decoded content of the file, None when the read fails
ReadBaseConfig(files, p, readOk) ==
    IF readOk /\ Utf8Decode(files[p]) # <<-1>> THEN StrV(Utf8Decode(files[p])) ELSE None

----------------------------------------------------------------------------
(* The settings map *)

\* the keys the Node base class owns (load pops "name" from the recognized keys)
BaseKeys == {"name"}

\* vpcs_settings of __init__
VpcsKeys == {"console_host", "startup_script", "startup_script_path", "console"}

SettingsKeys == BaseKeys \cup VpcsKeys

\* keys a caller or a server may add that the settings map does not hold
OtherKeys == {"script_file", "node_directory"}

\* the values a settings key holds in this model (servers answer with these)
KeyValues ==
    [k \in SettingsKeys \cup OtherKeys |->
        CASE k = "name" -> {StrV(NameP1), StrV(NameQ)}
          [] k = "console_host" -> {None, StrV(<<>>)}
          [] k = "startup_script" -> {None, StrV(<<>>), StrV(ScriptE)}
          [] k = "startup_script_path" -> {None, StrV(FileF)}
          [] k = "console" -> {None, IntV(5000)}
          [] k = "script_file" -> {StrV(FileF), StrV(FileXF)}
          [] k = "node_directory" -> {StrV(DirD)}]

\* the values callers put under each key of a settings dictionary
InputValues ==
    [k \in SettingsKeys \cup OtherKeys |->
        CASE k = "name" -> {StrV(NameP1), StrV(NameQ)}
          [] k = "console_host" -> {StrV(<<>>)}
          [] k = "startup_script" -> {StrV(<<>>), StrV(ScriptE)}
          [] k = "startup_script_path" -> {StrV(FileF)}
          [] k = "console" -> {IntV(5000)}
          [] k = "script_file" -> {StrV(FileF), StrV(FileXF)}
          [] k = "node_directory" -> {StrV(DirD)}]

\* self.settings() when __init__ returns (lines 48-53), the device being named NameP1
InitialSettings ==
    [k \in SettingsKeys |-> IF k = "name" THEN StrV(NameP1) ELSE None]

\* self.id()
DeviceId == "node-1"

\* self.name()
DeviceName == settings["name"].s

\* the files present before the device does anything
InitialFiles == [p \in {FileF} |-> Utf8Encode(ScriptE)]

----------------------------------------------------------------------------
(* Requests, notifications and the record of the last operation *)

\* a request as the base class receives it (_create, _update, httpGet)
Request(kind, name, id, params) ==
    [kind |-> kind, name |-> name, node_id |-> id, params |-> params]

\* what the transport keeps of a request until its callback runs
Pending(kind, ctx) == [kind |-> kind, ctx |-> ctx]

\* signal.emit(self.id(), message): the message is its format and its arguments
Signal(chan, fmt, args) == [chan |-> chan, id |-> DeviceId, fmt |-> fmt, args |-> args]

NoOp == [op |-> "idle", arg |-> EmptyDict, aux |-> EmptyDict, error |-> FALSE,
         pre |-> InitialSettings, fsPre |-> EmptyDict, net |-> <<>>, sigs |-> <<>>,
         out |-> EmptyDict, raised |-> FALSE]

\* the requests of one kind that wait for their callback
Waiting(kind) == { i \in 1..Len(inflight) : inflight[i].kind = kind }

RemoveAt(q, i) == SubSeq(q, 1, i - 1) \o SubSeq(q, i + 1, Len(q))

\* a handler runs when the event loop is idle and there is room for its requests
CanRun(pend) == last.op = "idle" /\ Len(inflight) + Len(pend) <= MaxInflight

\* the record a finished handler leaves
Done(op, arg, aux, net, sigs) ==
    [NoOp EXCEPT !.op = op, !.arg = arg, !.aux = aux, !.pre = settings, !.fsPre = fs,
                 !.net = net, !.sigs = sigs]

Init ==
    /\ settings = InitialSettings
    /\ node_id = None
    /\ fs = InitialFiles
    /\ inflight = <<>>
    /\ last = NoOp
    /\ orig = InitialSettings

\* the event loop takes over again: the finished handler's record is dropped
Idle ==
    /\ last.op # "idle"
    /\ last' = NoOp
    /\ UNCHANGED <<settings, node_id, fs, inflight, orig>>

----------------------------------------------------------------------------
(* create, update and their callbacks *)

\* lines 99-104 (and 75-80 of create): script_file is read into startup_script
ResolveScriptFile(d, files, readOk) ==
    IF "script_file" \in DOMAIN d
    THEN LET p == d["script_file"].s
             content == IF IsFile(files, p) THEN ReadBaseConfig(files, p, readOk) ELSE None
             d1 == IF IsFile(files, p) /\ content # None
                   THEN DictSet(d, "startup_script", content)
                   ELSE d
         IN DictDel(d1, "script_file")
    ELSE d

\* faulty variant: startup_script_path is left in the dictionary
KeepScriptPath(d) == d

\* lines 106-107 (and 82-83 of create)
DropScriptPath(d) == DictDel(d, "startup_script_path")

\* faulty variant: the test on the node id is inverted
DropScriptForNew(d, id) ==
    IF "startup_script" \in DOMAIN d /\ id = None THEN DictDel(d, "startup_script") ELSE d

\* lines 85-87: an existing node is not sent its startup_script again
DropScriptForExisting(d, id) ==
    IF "startup_script" \in DOMAIN d /\ id # None THEN DictDel(d, "startup_script") ELSE d

\* lines 74-89: the params create() hands to self._create
CreateParams(id, additional_settings, files, readOk) ==
    DropScriptForExisting(
        DropScriptPath(ResolveScriptFile(additional_settings, files, readOk)), id)

\* faulty variant: every settings key is forwarded, changed or not
DiffParamsAll(current, d) ==
    [k \in { x \in DOMAIN d : x \in DOMAIN current } |-> d[k]]

\* lines 109-112: the keys of the settings map whose value differs
DiffParams(current, d) ==
    LET keep == { k \in DOMAIN d : k \in DOMAIN current /\ current[k] # d[k] }
    IN [k \in keep |-> d[k]]

\* lines 99-112: the patch update() builds from new_settings
UpdatePatch(current, new_settings, files, readOk) ==
    DiffParams(current, DropScriptPath(ResolveScriptFile(new_settings, files, readOk)))

\* faulty variant: the patch is sent even when it is empty
UpdateRequestsAlways(params) == <<Request("update", None, node_id, params)>>

\* lines 114-115: self._update(params) only for a non-empty patch
UpdateRequests(params) ==
    IF DOMAIN params # {} THEN <<Request("update", None, node_id, params)>> ELSE <<>>

\* the read of _readBaseConfig can fail only where a file is read
ReadOutcomes(d) ==
    IF "script_file" \in DOMAIN d /\ IsFile(fs, d["script_file"].s) THEN BOOLEAN ELSE {TRUE}

ReadFlag(readOk) == [readOk |-> IF readOk THEN IntV(1) ELSE IntV(0)]

PendingOf(reqs) == [i \in 1..Len(reqs) |-> Pending(reqs[i].kind, EmptyDict)]

\* create(name, node_id, additional_settings), lines 65-90
Create(name, id, additional_settings, readOk) ==
    LET params == CreateParams(id, additional_settings, fs, readOk)
        reqs == <<Request("create", name, id, params)>>
    IN /\ CanRun(reqs)
       /\ inflight' = inflight \o PendingOf(reqs)
       /\ last' = Done("create", additional_settings,
                       [name |-> name, node_id |-> id] @@ ReadFlag(readOk), reqs, <<>>)
       /\ UNCHANGED <<settings, node_id, fs, orig>>

\* faulty variant: the new values are stored at once, before the server answers
UpdateWritingLocally(new_settings, readOk) ==
    LET patch == UpdatePatch(settings, new_settings, fs, readOk)
        reqs == UpdateRequests(patch)
    IN /\ CanRun(reqs)
       /\ inflight' = inflight \o PendingOf(reqs)
       /\ settings' = [k \in DOMAIN settings |->
                           IF k \in DOMAIN patch THEN patch[k] ELSE settings[k]]
       /\ last' = Done("update", new_settings, ReadFlag(readOk), reqs, <<>>)
       /\ UNCHANGED <<node_id, fs, orig>>

\* update(new_settings), lines 92-115
Update(new_settings, readOk) ==
    LET reqs == UpdateRequests(UpdatePatch(settings, new_settings, fs, readOk))
    IN /\ CanRun(reqs)
       /\ inflight' = inflight \o PendingOf(reqs)
       /\ last' = Done("update", new_settings, ReadFlag(readOk), reqs, <<>>)
       /\ UNCHANGED <<settings, node_id, fs, orig>>

\* faulty variant: the response replaces the settings, keys it lacks fall back to null
MergeResultReplace(current, result) ==
    [k \in DOMAIN current |-> IF k \in DOMAIN result THEN result[k] ELSE None]

\* faulty variant: the response is merged whole, keys the settings lack included
MergeResultAddingKeys(current, result) ==
    [k \in DOMAIN current \cup DOMAIN result |->
        IF k \in DOMAIN result THEN result[k] ELSE current[k]]

\* faulty variant: the test of line 126 is inverted, only equal values are assigned
MergeResultOnlyEqual(current, result) ==
    [k \in DOMAIN current |->
        IF k \in DOMAIN result /\ current[k] = result[k] THEN result[k] ELSE current[k]]

\* lines 124-127: the sparse merge of a server response into the settings
MergeResult(current, result) ==
    [k \in DOMAIN current |->
        IF k \in DOMAIN result /\ current[k] # result[k] THEN result[k] ELSE current[k]]

\* _updateCallback(result), lines 117-127, run by the base class on the response
UpdateCallback(i, result) ==
    /\ CanRun(<<>>)
    /\ inflight[i].kind = "update"
    /\ settings' = MergeResult(settings, result)
    /\ inflight' = RemoveAt(inflight, i)
    /\ last' = Done("_updateCallback", result, EmptyDict, <<>>, <<>>)
    /\ UNCHANGED <<node_id, fs, orig>>

\* the base class on the response to a creation: the server's id is kept and
\* the response is merged into the settings as for an update
CreateCallback(i, result) ==
    /\ CanRun(<<>>)
    /\ inflight[i].kind = "create"
    /\ settings' = MergeResult(settings, result)
    /\ node_id' = StrV(IdN1)
    /\ inflight' = RemoveAt(inflight, i)
    /\ last' = Done("_createCallback", result, EmptyDict, <<>>, <<>>)
    /\ UNCHANGED <<fs, orig>>

----------------------------------------------------------------------------
(* dump and load *)

\* faulty variant: the script path is dumped in full
DumpValueFullPath(k, v) == v

\* lines 176-178: the value dump() writes, the script path as its file name
DumpValue(k, v) == IF k = "startup_script_path" THEN StrV(Basename(v.s)) ELSE v

\* faulty variant: empty strings are dumped too
DumpKeysKeepEmpty(current) ==
    { k \in DOMAIN current : current[k] # None /\ k # "startup_script" }

\* faulty variant: the script is dumped with the rest
DumpKeysWithScript(current) ==
    { k \in DOMAIN current : current[k] # None /\ current[k] # StrV(<<>>) }

\* lines 173-175: the settings dump() writes
DumpKeys(current) ==
    { k \in DOMAIN current : current[k] # None /\ current[k] # StrV(<<>>) /\ k # "startup_script" }

\* lines 173-178: the properties of the base dump with the entries dump() adds
DumpProperties(current, baseProps) ==
    [k \in DOMAIN baseProps \cup DumpKeys(current) |->
        IF k \in DumpKeys(current) THEN DumpValue(k, current[k]) ELSE baseProps[k]]

\* Node.dump: the node's id and an empty properties block
BaseDumpIds == [k \in {"node_id"} |-> node_id]

\* dump(), lines 162-180
Dump ==
    /\ CanRun(<<>>)
    /\ last' = [Done("dump", EmptyDict, BaseDumpIds, <<>>, <<>>)
                   EXCEPT !.out = DumpProperties(settings, EmptyDict)]
    /\ UNCHANGED <<settings, node_id, fs, inflight, orig>>

\* faulty variant: a field that is present wins, whatever it holds
ResolveNodeIdPresent(ids) ==
    IF "vpcs_id" \in DOMAIN ids THEN ids["vpcs_id"]
    ELSE IF "node_id" \in DOMAIN ids THEN ids["node_id"]
    ELSE DictGet(ids, "vm_id")

\* lines 193-198: the id of the record, over three generations of its name
ResolveNodeId(ids) ==
    IF Truthy(DictGet(ids, "vpcs_id")) THEN DictGet(ids, "vpcs_id")
    ELSE IF Truthy(DictGet(ids, "node_id")) THEN DictGet(ids, "node_id")
    ELSE DictGet(ids, "vm_id")

\* faulty variant: every property is taken, recognized or not
LoadSettingsAll(current, props) == props

\* lines 201-204: the properties that are keys of the settings map
LoadSettings(current, props) ==
    [k \in { x \in DOMAIN props : x \in DOMAIN current } |-> props[k]]

\* lines 205-208: pop("name") raises KeyError without a name, else create is called
LoadRequests(current, ids, props, files) ==
    LET vm_settings == LoadSettings(current, props)
        id == ResolveNodeId(ids)
    IN IF "name" \in DOMAIN vm_settings
       THEN <<Request("create", vm_settings["name"], id,
                      CreateParams(id, DictDel(vm_settings, "name"), files, TRUE))>>
       ELSE <<>>

\* load(node_info), lines 182-208
Load(ids, props) ==
    LET reqs == LoadRequests(settings, ids, props, fs)
    IN /\ CanRun(reqs)
       /\ inflight' = inflight \o PendingOf(reqs)
       /\ last' = [Done("load", props, ids, reqs, <<>>) EXCEPT !.raised = (reqs = <<>>)]
       /\ UNCHANGED <<settings, node_id, fs, orig>>

\* info(), lines 129-160: the description of the device, of which the name,
\* the server's id and the console port are kept
Info ==
    /\ CanRun(<<>>)
    /\ last' = [Done("info", EmptyDict, EmptyDict, <<>>, <<>>)
                   EXCEPT !.out = [k \in {"name", "node_id", "console"} |->
                                      CASE k = "name" -> settings["name"]
                                        [] k = "node_id" -> node_id
                                        [] k = "console" -> settings["console"]]]
    /\ UNCHANGED <<settings, node_id, fs, inflight, orig>>

----------------------------------------------------------------------------
(* Script export *)

\* the GET request both exports issue, lines 217-219 and 249-251
ExportRequests == <<Request("get", None, node_id, EmptyDict)>>

\* exportConfig(config_export_path), lines 210-219
ExportConfig(path) ==
    /\ CanRun(ExportRequests)
    /\ inflight' = Append(inflight, Pending("exportConfig", [path |-> StrV(path)]))
    /\ last' = Done("exportConfig", EmptyDict, [path |-> StrV(path)], ExportRequests, <<>>)
    /\ UNCHANGED <<settings, node_id, fs, orig>>

\* exportConfigToDirectory(directory), lines 242-251
ExportConfigToDirectory(directory) ==
    /\ CanRun(ExportRequests)
    /\ inflight' = Append(inflight, Pending("exportConfigToDirectory", [directory |-> StrV(directory)]))
    /\ last' = Done("exportConfigToDirectory", EmptyDict, [directory |-> StrV(directory)],
                    ExportRequests, <<>>)
    /\ UNCHANGED <<settings, node_id, fs, orig>>

\* open(path, "wb") raises OSError when the directory of path does not exist
CanOpen(path) == Dirname(path) \in ExistingDirs

\* lines 235-238 and 268-271: the file is created or truncated, and a body that
\* is truthy is written encoded; of a write that fails, the first `written`
\* bytes reach the file
ScriptBytes(body) == IF Truthy(body) THEN Utf8Encode(body.s) ELSE <<>>

\* faulty variant: no file is opened for a body that is null or empty
WrittenFilesSkipEmpty(files, path, body, written) ==
    IF ~CanOpen(path) \/ ~Truthy(body) THEN files
    ELSE DictSet(files, path, SubSeq(ScriptBytes(body), 1, written))

WrittenFiles(files, path, body, written) ==
    IF ~CanOpen(path) THEN files
    ELSE DictSet(files, path, SubSeq(ScriptBytes(body), 1, written))

\* faulty variant: only the failure to open the file is reported
WriteSignalsOpenOnly(path, body, written) ==
    IF ~CanOpen(path)
    THEN <<Signal("error", "could not export the script file to {}: {}", <<StrV(path)>>)>>
    ELSE <<>>

\* lines 239-240 and 272-273: the OSError of open or write is reported
WriteSignals(path, body, written) ==
    IF ~CanOpen(path) \/ written < Len(ScriptBytes(body))
    THEN <<Signal("error", "could not export the script file to {}: {}", <<StrV(path)>>)>>
    ELSE <<>>

\* lines 229-231 and 261-263: the server's message goes out as it came
ServerErrorSignals(result) == <<Signal("server_error", "{}", <<result["message"]>>)>>

\* faulty variant: the script is written although the response is an error
ExportedFilesIgnoringError(files, result, error, path, written) ==
    IF "startup_script" \in DOMAIN result
    THEN WrittenFiles(files, path, result["startup_script"], written)
    ELSE files

\* lines 229-240 and 261-273: what an export callback does with the response
ExportedFiles(files, result, error, path, written) ==
    IF error THEN files
    ELSE IF "startup_script" \in DOMAIN result
         THEN WrittenFiles(files, path, result["startup_script"], written)
    ELSE files

ExportSignals(result, error, path, written) ==
    IF error THEN ServerErrorSignals(result)
    ELSE IF "startup_script" \in DOMAIN result
         THEN WriteSignals(path, result["startup_script"], written)
    ELSE <<>>

\* faulty variant: the file is named after the device's raw name
ConfigPathRawName(directory, name) == PathJoin(directory, name) \o StartupSuffix

\* line 266: the file a directory export writes
ConfigPath(directory, name) == PathJoin(directory, normalize_filename(name)) \o StartupSuffix

\* how many bytes a write puts in the file: all of them unless it fails
WriteOutcomes(result, error, path) ==
    IF ~error /\ "startup_script" \in DOMAIN result /\ CanOpen(path)
    THEN 0..Len(ScriptBytes(result["startup_script"])) ELSE {0}

ExportCallbackStep(op, i, result, error, path, written) ==
    /\ CanRun(<<>>)
    /\ fs' = ExportedFiles(fs, result, error, path, written)
    /\ inflight' = RemoveAt(inflight, i)
    /\ last' = [Done(op, result, [path |-> StrV(path)] @@ inflight[i].ctx, <<>>,
                     ExportSignals(result, error, path, written))
                   EXCEPT !.error = error, !.out = [written |-> IntV(written)]]
    /\ UNCHANGED <<settings, node_id, orig>>

\* faulty variant: a read that the server answered with an error is asked again
ExportConfigCallbackRetrying(i, result, error, written) ==
    /\ inflight[i].kind = "exportConfig"
    /\ CanRun(<<>>)
    /\ fs' = ExportedFiles(fs, result, error, inflight[i].ctx["path"].s, written)
    /\ inflight' = IF error THEN inflight ELSE RemoveAt(inflight, i)
    /\ last' = [Done("_exportConfigCallback", result, inflight[i].ctx,
                     IF error THEN ExportRequests ELSE <<>>,
                     ExportSignals(result, error, inflight[i].ctx["path"].s, written))
                   EXCEPT !.error = error, !.out = [written |-> IntV(written)]]
    /\ UNCHANGED <<settings, node_id, orig>>

\* _exportConfigCallback(result, error, context), lines 221-240
ExportConfigCallback(i, result, error, written) ==
    /\ inflight[i].kind = "exportConfig"
    /\ ExportCallbackStep("_exportConfigCallback", i, result, error,
                          inflight[i].ctx["path"].s, written)

\* _exportConfigToDirectoryCallback(result, error, context), lines 253-273
ExportConfigToDirectoryCallback(i, result, error, written) ==
    /\ inflight[i].kind = "exportConfigToDirectory"
    /\ ExportCallbackStep("_exportConfigToDirectoryCallback", i, result, error,
                          ConfigPath(inflight[i].ctx["directory"].s, DeviceName), written)

----------------------------------------------------------------------------
(* Script import *)

\* importConfig(path), lines 275-283
ImportConfig(path, readOk) ==
    LET new_settings == [k \in {"script_file"} |-> StrV(path)]
        reqs == UpdateRequests(UpdatePatch(settings, new_settings, fs, readOk))
    IN /\ CanRun(reqs)
       /\ inflight' = inflight \o PendingOf(reqs)
       /\ last' = Done("importConfig", new_settings, ReadFlag(readOk), reqs, <<>>)
       /\ UNCHANGED <<settings, node_id, fs, orig>>

\* line 297: the file a directory import looks for
ScriptFileName(name) == normalize_filename(name) \o StartupSuffix

\* lines 292-296: os.listdir raises OSError for a directory that does not exist
CanList(directory) == directory \in ExistingDirs

\* lines 298-304: the settings handed to update, none when the file is missing
DirectoryImportSettings(files, directory, name) ==
    IF CanList(directory) /\ ScriptFileName(name) \in ListDir(files, directory)
    THEN {[k \in {"script_file"} |-> StrV(PathJoin(directory, ScriptFileName(name)))]}
    ELSE {}

\* faulty variant: a failed listing does not end the import
DirectoryImportSignalsNoReturn(files, directory, name) ==
    (IF ~CanList(directory)
     THEN <<Signal("warning", "Can't list file in {}: {}", <<StrV(directory)>>)>>
     ELSE <<>>)
    \o (IF ~CanList(directory) \/ ScriptFileName(name) \notin ListDir(files, directory)
        THEN <<Signal("warning", "no script file could be found, expected file name: {}",
                      <<StrV(ScriptFileName(name))>>)>>
        ELSE <<>>)

\* faulty variant: the warning names the file by the device's raw name
DirectoryImportSignalsRawName(files, directory, name) ==
    IF ~CanList(directory)
    THEN <<Signal("warning", "Can't list file in {}: {}", <<StrV(directory)>>)>>
    ELSE IF ScriptFileName(name) \notin ListDir(files, directory)
         THEN <<Signal("warning", "no script file could be found, expected file name: {}",
                       <<StrV(name \o StartupSuffix)>>)>>
    ELSE <<>>

\* lines 295 and 302: the warning of a failed listing or of a missing file
DirectoryImportSignals(files, directory, name) ==
    IF ~CanList(directory)
    THEN <<Signal("warning", "Can't list file in {}: {}", <<StrV(directory)>>)>>
    ELSE IF ScriptFileName(name) \notin ListDir(files, directory)
         THEN <<Signal("warning", "no script file could be found, expected file name: {}",
                       <<StrV(ScriptFileName(name))>>)>>
    ELSE <<>>

DirectoryImportRequests(newSettings, readOk) ==
    IF newSettings = {} THEN <<>>
    ELSE LET d == CHOOSE x \in newSettings : TRUE
         IN UpdateRequests(UpdatePatch(settings, d, fs, readOk))

\* what the directory export that has just completed wrote, for an import that
\* follows it at once: the directory and the path of the file, when the
\* response carried a script and open and write went through
ExportedBefore ==
    IF /\ last.op = "_exportConfigToDirectoryCallback" /\ ~last.error
       /\ "startup_script" \in DOMAIN last.arg /\ last.sigs = <<>>
    THEN [into |-> last.aux["directory"], exported |-> last.aux["path"]]
    ELSE EmptyDict

\* importConfigFromDirectory(directory), lines 285-304
ImportConfigFromDirectory(directory, readOk) ==
    LET found == DirectoryImportSettings(fs, directory, DeviceName)
        reqs == DirectoryImportRequests(found, readOk)
    IN /\ CanRun(reqs) \/ (ExportedBefore # EmptyDict /\ Len(inflight) + Len(reqs) <= MaxInflight)
       /\ inflight' = inflight \o PendingOf(reqs)
       /\ last' = Done("importConfigFromDirectory",
                       IF found = {} THEN EmptyDict ELSE CHOOSE d \in found : TRUE,
                       [directory |-> StrV(directory)] @@ ReadFlag(readOk) @@ ExportedBefore,
                       reqs, DirectoryImportSignals(fs, directory, DeviceName))
       /\ UNCHANGED <<settings, node_id, fs, orig>>

----------------------------------------------------------------------------
(* Inputs *)

SettingsInputs == Dicts(SettingsKeys \cup OtherKeys, InputValues, MaxKeys)

\* what a server answers to a creation or an update: a partial description of the node
ServerResults == Dicts(SettingsKeys \cup {"node_directory"}, KeyValues, 1)

CreateNames == {StrV(NameP1)}
CreateIds == {None, StrV(IdN1)}

IdFields == {"vpcs_id", "node_id", "vm_id"}
IdOf == [k \in IdFields |-> CASE k = "vpcs_id" -> StrV(IdN1)
                              [] k = "node_id" -> StrV(IdN2)
                              [] k = "vm_id" -> StrV(IdN3)]
\* a record holds each id field with an id, null or "", or lacks it
IdRecords ==
    UNION { { d \in [dom -> {None, StrV(<<>>), StrV(IdN1), StrV(IdN2), StrV(IdN3)}] :
                \A k \in dom : d[k] \in {None, StrV(<<>>), IdOf[k]} } : dom \in SUBSET IdFields }

PropertyRecords ==
    { EmptyDict,
      [k \in {"name", "startup_script"} |-> IF k = "name" THEN StrV(NameQ) ELSE StrV(ScriptE)],
      [k \in {"name", "startup_script_path", "node_directory"} |->
          IF k = "name" THEN StrV(NameP1) ELSE IF k = "node_directory" THEN StrV(DirD) ELSE StrV(RelF)] }

Next ==
    \/ \E name \in CreateNames, id \in CreateIds, d \in SettingsInputs :
           \E readOk \in ReadOutcomes(d) : Create(name, id, d, readOk)
    \/ \E i \in Waiting("create"), r \in ServerResults : CreateCallback(i, r)
    \/ \E d \in SettingsInputs : \E readOk \in ReadOutcomes(d) : Update(d, readOk)
    \/ \E i \in Waiting("update"), r \in ServerResults : UpdateCallback(i, r)
    \/ Dump
    \/ \E ids \in IdRecords, props \in PropertyRecords : Load(ids, props)
    \/ Idle

Spec == Init /\ [][Next]_vars

\* the import and export of the startup script, on a device whose server
\* answers updates with its startup script
ExportPaths == {FileG, FileXF}
ImportPaths == {FileF, FileG, FileXF}
Directories == {DirD, DirX}

ExportResults ==
    { EmptyDict,
      [k \in {"startup_script"} |-> None],
      [k \in {"startup_script"} |-> StrV(<<>>)],
      [k \in {"startup_script"} |-> StrV(ScriptE)] }

ExportErrors ==
    { [k \in {"message"} |-> StrV(MsgM)],
      [k \in {"message", "startup_script"} |-> IF k = "message" THEN StrV(MsgM) ELSE StrV(ScriptE)] }

ExportAnswers ==
    { <<r, FALSE>> : r \in ExportResults } \cup { <<r, TRUE>> : r \in ExportErrors }

ScriptResults == Dicts({"startup_script"}, KeyValues, 1)

\* whether importing path reads a file
ReadsFile(path) == IF IsFile(fs, path) THEN BOOLEAN ELSE {TRUE}

NextIO ==
    \/ \E path \in ExportPaths : ExportConfig(path)
    \/ \E i \in Waiting("exportConfig"), a \in ExportAnswers :
           \E written \in WriteOutcomes(a[1], a[2], inflight[i].ctx["path"].s) :
               ExportConfigCallback(i, a[1], a[2], written)
    \/ \E directory \in Directories : ExportConfigToDirectory(directory)
    \/ \E i \in Waiting("exportConfigToDirectory"), a \in ExportAnswers :
           \E written \in WriteOutcomes(a[1], a[2], ConfigPath(inflight[i].ctx["directory"].s, DeviceName)) :
               ExportConfigToDirectoryCallback(i, a[1], a[2], written)
    \/ \E path \in ImportPaths : \E readOk \in ReadsFile(path) : ImportConfig(path, readOk)
    \/ \E directory \in Directories :
           \E readOk \in ReadsFile(ConfigPath(directory, DeviceName)) :
               ImportConfigFromDirectory(directory, readOk)
    \/ \E i \in Waiting("update"), r \in ScriptResults : UpdateCallback(i, r)
    \/ Idle

SpecIO == Init /\ [][NextIO]_vars

\* the round trip of a device through the topology file: any device is dumped,
\* a new device is constructed and loads the dump, the server echoes the creation
AllSettings == { s \in [SettingsKeys -> UNION { KeyValues[k] : k \in SettingsKeys }] : WellTyped(s, KeyValues) }

InitRT ==
    /\ settings \in AllSettings
    /\ node_id \in {None, StrV(IdN1)}
    /\ fs = InitialFiles
    /\ inflight = <<>>
    /\ last = NoOp
    /\ orig = settings

\* __init__, lines 42-53: a new device, the dump at hand
Construct ==
    /\ last.op = "dump"
    /\ settings' = InitialSettings
    /\ node_id' = None
    /\ last' = [last EXCEPT !.op = "__init__"]
    /\ UNCHANGED <<fs, inflight, orig>>

\* load on the new device, of the dumped record with the name put back
LoadDumped ==
    LET props == DictSet(last.out, "name", orig["name"])
        reqs == LoadRequests(settings, last.aux, props, fs)
    IN /\ last.op = "__init__"
       /\ inflight' = inflight \o PendingOf(reqs)
       /\ last' = [Done("load", props, last.aux, reqs, <<>>) EXCEPT !.raised = (reqs = <<>>)]
       /\ UNCHANGED <<settings, node_id, fs, orig>>

\* the server answers the creation with the name and the parameters it was sent
EchoOf(req) == DictSet(req.params, "name", req.name)

EchoCreateCallback ==
    /\ last.op = "load" /\ Len(last.net) = 1 /\ Waiting("create") # {}
    /\ settings' = MergeResult(settings, EchoOf(last.net[1]))
    /\ node_id' = IF last.net[1].node_id # None THEN last.net[1].node_id ELSE StrV(IdN1)
    /\ inflight' = <<>>
    /\ last' = Done("_createCallback", EchoOf(last.net[1]), EmptyDict, <<>>, <<>>)
    /\ UNCHANGED <<fs, orig>>

NextRT == Dump \/ Construct \/ LoadDumped \/ EchoCreateCallback

SpecRT == InitRT /\ [][NextRT]_vars

----------------------------------------------------------------------------
(* The whole device *)

\* every handler of the device, on few inputs
FewSettings == Dicts({"console", "script_file"}, InputValues, MaxKeys)
FewResults == Dicts({"console", "startup_script", "node_directory"}, KeyValues, 1)
FewIdRecords == { ids \in IdRecords : DOMAIN ids \subseteq {"node_id"} }

NextDevice ==
    \/ \E name \in CreateNames, id \in CreateIds, d \in FewSettings :
           \E readOk \in ReadOutcomes(d) : Create(name, id, d, readOk)
    \/ \E i \in Waiting("create"), r \in FewResults : CreateCallback(i, r)
    \/ \E d \in FewSettings : \E readOk \in ReadOutcomes(d) : Update(d, readOk)
    \/ \E i \in Waiting("update"), r \in FewResults : UpdateCallback(i, r)
    \/ Info
    \/ Dump
    \/ \E ids \in FewIdRecords, props \in PropertyRecords : Load(ids, props)
    \/ \E path \in ExportPaths : ExportConfig(path)
    \/ \E i \in Waiting("exportConfig"), a \in ExportAnswers :
           \E written \in WriteOutcomes(a[1], a[2], inflight[i].ctx["path"].s) :
               ExportConfigCallback(i, a[1], a[2], written)
    \/ \E directory \in Directories : ExportConfigToDirectory(directory)
    \/ \E i \in Waiting("exportConfigToDirectory"), a \in ExportAnswers :
           \E written \in WriteOutcomes(a[1], a[2], ConfigPath(inflight[i].ctx["directory"].s, DeviceName)) :
               ExportConfigToDirectoryCallback(i, a[1], a[2], written)
    \/ \E path \in ImportPaths : \E readOk \in ReadsFile(path) : ImportConfig(path, readOk)
    \/ \E directory \in Directories :
           \E readOk \in ReadsFile(ConfigPath(directory, DeviceName)) :
               ImportConfigFromDirectory(directory, readOk)
    \/ Idle

SpecDevice == Init /\ [][NextDevice]_vars

----------------------------------------------------------------------------
(* An update and its acknowledgement *)

\* a device in any settings state is updated, the server answers, the answer is
\* delivered (and possibly delivered once more), and the same update is asked again

\* _updateCallback(result), lines 117-127, on the response to the update just
\* issued: the echo of its patch or any other answer
AckUpdateCallback(result) ==
    /\ last.op = "update" /\ Len(last.net) = 1 /\ "again" \notin DOMAIN last.aux
    /\ settings' = MergeResult(settings, result)
    /\ inflight' = <<>>
    /\ last' = [Done("_updateCallback", result,
                     [echo |-> IF result = last.net[1].params THEN IntV(1) ELSE IntV(0)]
                        @@ last.aux, <<>>, <<>>)
                   EXCEPT !.out = last.arg]
    /\ UNCHANGED <<node_id, fs, orig>>

\* _updateCallback(result), lines 117-127, called a second time with the same result
RepeatUpdateCallback ==
    /\ last.op = "_updateCallback" /\ "echo" \in DOMAIN last.aux /\ "twice" \notin DOMAIN last.aux
    /\ settings' = MergeResult(settings, last.arg)
    /\ last' = [Done("_updateCallback", last.arg, [twice |-> IntV(1)] @@ last.aux, <<>>, <<>>)
                   EXCEPT !.out = last.out]
    /\ UNCHANGED <<node_id, fs, inflight, orig>>

\* update(new_settings), lines 92-115, with the settings of the update that the
\* server has just echoed; the script file is read anew
UpdateAgain(readOk) ==
    LET reqs == UpdateRequests(UpdatePatch(settings, last.out, fs, readOk))
    IN /\ last.op = "_updateCallback" /\ "echo" \in DOMAIN last.aux /\ last.aux["echo"] = IntV(1)
       /\ inflight' = inflight \o PendingOf(reqs)
       /\ last' = Done("update", last.out,
                       [again |-> IntV(1), readBefore |-> last.aux["readOk"]] @@ ReadFlag(readOk),
                       reqs, <<>>)
       /\ UNCHANGED <<settings, node_id, fs, orig>>

NextAck ==
    \/ \E d \in SettingsInputs : \E readOk \in ReadOutcomes(d) : Update(d, readOk)
    \/ \E result \in ServerResults \cup {last.net[i].params : i \in 1..Len(last.net)} :
          AckUpdateCallback(result)
    \/ RepeatUpdateCallback
    \/ \E readOk \in ReadOutcomes(last.out) : UpdateAgain(readOk)

SpecAck == InitRT /\ [][NextAck]_vars

----------------------------------------------------------------------------
(* Properties *)

\* the inputs of the last operation, read without the operators above
ArgPath == last.arg["script_file"].s
ArgFileRead ==
    /\ "script_file" \in DOMAIN last.arg
    /\ ArgPath \in DOMAIN last.fsPre
    /\ last.aux["readOk"] = IntV(1)
    /\ Utf8Decode(last.fsPre[ArgPath]) # <<-1>>
ArgKeys ==
    (DOMAIN last.arg \ {"script_file", "startup_script_path"})
        \cup (IF ArgFileRead THEN {"startup_script"} ELSE {})
ArgValue(k) ==
    IF k = "startup_script" /\ ArgFileRead THEN StrV(Utf8Decode(last.fsPre[ArgPath])) ELSE last.arg[k]
ArgChanged == { k \in ArgKeys : k \in DOMAIN last.pre /\ ArgValue(k) # last.pre[k] }

\* C1: update hands the base update exactly the keys of new_settings (script_file
\* resolved, startup_script_path removed) that are settings keys and whose value
\* differs from the stored one, with the new values; with no such key it issues
\* no request.
C1_UpdateDiffMinimal ==
    last.op = "update" =>
        IF ArgChanged = {} THEN last.net = <<>>
        ELSE /\ Len(last.net) = 1
             /\ last.net[1].kind = "update"
             /\ DOMAIN last.net[1].params = ArgChanged
             /\ \A k \in ArgChanged : last.net[1].params[k] = ArgValue(k)

\* an update of two keys of which one is unchanged and one goes out
C1_Witness ==
    /\ last.op = "update"
    /\ Cardinality(DOMAIN last.arg) = 2
    /\ Len(last.net) = 1
    /\ Cardinality(DOMAIN last.net[1].params) = 1
    /\ \E k \in DOMAIN last.arg : k \in DOMAIN last.pre /\ last.arg[k] = last.pre[k]

CreateRequests == { i \in 1..Len(last.net) : last.net[i].kind = "create" }

\* C2: a creation with a non-null node id never carries startup_script, whether
\* the caller supplied it or it was read from script_file; with a null id a
\* supplied startup_script stays in the parameters (with the caller's value
\* unless a script file was read over it).
C2_NoScriptForExistingNode ==
    /\ \A i \in CreateRequests :
          last.net[i].node_id # None => "startup_script" \notin DOMAIN last.net[i].params
    /\ (last.op = "create" /\ last.aux["node_id"] = None /\ "startup_script" \in DOMAIN last.arg) =>
          /\ "startup_script" \in DOMAIN last.net[1].params
          /\ ~ArgFileRead => last.net[1].params["startup_script"] = last.arg["startup_script"]

\* a creation for an existing node whose script came from a file that was read
C2_Witness ==
    /\ last.op = "create"
    /\ last.aux["node_id"] # None
    /\ ArgFileRead
    /\ "startup_script" \notin DOMAIN last.net[1].params

\* the first of the three id fields the record holds, null when it holds none
FirstPresent(ids) ==
    IF "vpcs_id" \in DOMAIN ids THEN ids["vpcs_id"]
    ELSE IF "node_id" \in DOMAIN ids THEN ids["node_id"]
    ELSE IF "vm_id" \in DOMAIN ids THEN ids["vm_id"]
    ELSE None

\* a field counts when the record holds it with a value that is neither null nor empty
Holds(ids, k) == k \in DOMAIN ids /\ ids[k] # None /\ ids[k] # StrV(<<>>)

\* C3 as stated: load passes create the value of the first id field present in
\* the order vpcs_id, node_id, vm_id, and null when none is present.
C3_FirstPresentId ==
    (last.op = "load" /\ ~last.raised) => last.net[1].node_id = FirstPresent(last.aux)

\* C3, amended: load passes create the value of the first of vpcs_id, node_id,
\* vm_id that the record holds with a value neither null nor empty; when there
\* is none, it passes what the record holds under vm_id, and null without vm_id.
C3_FirstTruthyId ==
    (last.op = "load" /\ ~last.raised) =>
        /\ Len(last.net) = 1 /\ last.net[1].kind = "create"
        /\ last.net[1].node_id =
              IF Holds(last.aux, "vpcs_id") THEN last.aux["vpcs_id"]
              ELSE IF Holds(last.aux, "node_id") THEN last.aux["node_id"]
              ELSE IF "vm_id" \in DOMAIN last.aux THEN last.aux["vm_id"]
              ELSE None

\* a record whose vpcs_id is null and whose node_id holds an id: node_id is taken
C3_Witness ==
    /\ last.op = "load" /\ ~last.raised
    /\ "vpcs_id" \in DOMAIN last.aux /\ last.aux["vpcs_id"] = None
    /\ Holds(last.aux, "node_id") /\ Holds(last.aux, "vm_id")
    /\ last.net[1].node_id = last.aux["node_id"]

\* the part of path p after its last "/"
IsFinalSegment(v, p) ==
    /\ \A i \in 1..Len(v) : v[i] # 47
    /\ Len(v) < Len(p)
    /\ p[Len(p) - Len(v)] = 47
    /\ SubSeq(p, Len(p) - Len(v) + 1, Len(p)) = v

\* C4: the properties dump writes never hold startup_script, and an absolute
\* startup_script_path is written as its final segment only.
C4_DumpExclusions ==
    last.op = "dump" =>
        /\ "startup_script" \notin DOMAIN last.out
        /\ (last.pre["startup_script_path"].t = "str"
              /\ last.pre["startup_script_path"].s # <<>>
              /\ last.pre["startup_script_path"].s[1] = 47) =>
                 /\ "startup_script_path" \in DOMAIN last.out
                 /\ last.out["startup_script_path"].t = "str"
                 /\ IsFinalSegment(last.out["startup_script_path"].s,
                                   last.pre["startup_script_path"].s)

\* a dump of a device that holds a script and an absolute script path
C4_Witness ==
    /\ last.op = "dump"
    /\ last.pre["startup_script"] = StrV(ScriptE)
    /\ last.pre["startup_script_path"] = StrV(FileF)
    /\ last.out["startup_script_path"] = StrV(RelF)

\* C8: _updateCallback is a sparse merge: a settings key the result names holds
\* the result's value, every other settings key keeps its value, and the keys
\* of the result that are no settings keys add nothing.
C8_SparseMerge ==
    last.op = "_updateCallback" =>
        /\ DOMAIN settings = DOMAIN last.pre
        /\ \A k \in DOMAIN settings :
              settings[k] = IF k \in DOMAIN last.arg THEN last.arg[k] ELSE last.pre[k]

\* a response that changes one key of a device on which another key is set
C8_Witness ==
    /\ last.op = "_updateCallback"
    /\ \E k \in DOMAIN last.arg : k \in DOMAIN last.pre /\ last.arg[k] # last.pre[k]
    /\ \E k \in DOMAIN last.pre \ DOMAIN last.arg : k # "name" /\ settings[k] # None

\* C10: neither the parameters of a creation nor the patch of an update hold
\* script_file or startup_script_path, whatever the caller passed and whether
\* or not the script file was there and could be read.
C10_NoFileKeysSent ==
    \A i \in 1..Len(last.net) :
        last.net[i].kind \in {"create", "update"} =>
            /\ "script_file" \notin DOMAIN last.net[i].params
            /\ "startup_script_path" \notin DOMAIN last.net[i].params

\* a creation given a script file that is not there and a script path
C10_Witness ==
    /\ last.op = "create"
    /\ "script_file" \in DOMAIN last.arg /\ ArgPath \notin DOMAIN last.fsPre
    /\ "startup_script_path" \in DOMAIN last.arg
    /\ Len(last.net) = 1 /\ last.net[1].params = EmptyDict

\* the export callbacks, and the file the last one was to write
ExportCallbacks == {"_exportConfigCallback", "_exportConfigToDirectoryCallback"}
Target == last.aux["path"].s

\* C6: a directory import whose listing succeeds without the file
\* <normalized name>_startup.vpc emits one warning, tagged with the device id and
\* naming that file, issues no update and leaves the settings as they were.
C6_DirectoryImportMiss ==
    (/\ last.op = "importConfigFromDirectory"
     /\ last.aux["directory"].s \in ExistingDirs
     /\ ~\E p \in DOMAIN last.fsPre :
            p = last.aux["directory"].s \o Slash \o normalize_filename(last.pre["name"].s) \o StartupSuffix)
    => /\ Len(last.sigs) = 1
       /\ last.sigs[1].chan = "warning"
       /\ last.sigs[1].id = DeviceId
       /\ last.sigs[1].args = <<StrV(normalize_filename(last.pre["name"].s) \o StartupSuffix)>>
       /\ last.net = <<>>
       /\ settings = last.pre

\* a directory that holds files, none of them the script of this device
C6_Witness ==
    /\ last.op = "importConfigFromDirectory"
    /\ last.aux["directory"].s = DirD
    /\ Cardinality(DOMAIN last.fsPre) = 2
    /\ Len(last.sigs) = 1
    /\ last.sigs[1].args = <<StrV(<<80, 95, 49>> \o StartupSuffix)>>

\* C7: an export callback with the error flag emits one server-error
\* notification with the device id and the server's message as it came, nothing
\* on the error or warning channels, and touches no file, also when the result
\* holds a startup_script.
C7_ExportTransportError ==
    (last.op \in ExportCallbacks /\ last.error) =>
        /\ last.sigs = <<[chan |-> "server_error", id |-> DeviceId, fmt |-> "{}",
                          args |-> <<last.arg["message"]>>]>>
        /\ fs = last.fsPre

\* an error response that also holds a script, for a path that could be written
C7_Witness ==
    /\ last.op = "_exportConfigCallback" /\ last.error
    /\ "startup_script" \in DOMAIN last.arg
    /\ Dirname(Target) \in ExistingDirs
    /\ Target \notin DOMAIN fs

\* the bytes an export is to leave in the file
BodyBytes == IF Truthy(last.arg["startup_script"]) THEN Utf8Encode(last.arg["startup_script"].s) ELSE <<>>

WriteSucceeded ==
    /\ Dirname(Target) \in ExistingDirs
    /\ "startup_script" \in DOMAIN last.arg => last.out["written"] = IntV(Len(BodyBytes))

C5_RoundTrip ==
    last.op = "_createCallback" =>
        \A k \in SettingsKeys \ {"startup_script"} : settings[k] = orig[k]

\* C5, amended: they are equal on every key but startup_script and
\* startup_script_path whose dumped value is not the empty string; the new
\* device holds null for startup_script_path and for every key that was empty.
C5_RoundTripOfDumpedKeys ==
    last.op = "_createCallback" =>
        \A k \in SettingsKeys \ {"startup_script"} :
            settings[k] = IF k = "startup_script_path" \/ orig[k] = StrV(<<>>) THEN None ELSE orig[k]

\* a device with a console, an empty console host and a script path went round
C5_Witness ==
    /\ last.op = "_createCallback"
    /\ orig["console"] = IntV(5000) /\ settings["console"] = IntV(5000)
    /\ orig["name"] = StrV(NameQ) /\ settings["name"] = StrV(NameQ)
    /\ orig["console_host"] = StrV(<<>>)
    /\ orig["startup_script_path"] = StrV(FileF)

\* C11: a directory import whose listing fails emits one warning tagged with
\* the device id, that of the failed listing, and stops: no update request and
\* no warning of a missing file.
C11_DirectoryListingFails ==
    (last.op = "importConfigFromDirectory" /\ last.aux["directory"].s \notin ExistingDirs) =>
        /\ Len(last.sigs) = 1
        /\ last.sigs[1].chan = "warning"
        /\ last.sigs[1].id = DeviceId
        /\ last.sigs[1].fmt = "Can't list file in {}: {}"
        /\ last.sigs[1].args = <<last.aux["directory"]>>
        /\ last.net = <<>>
        /\ settings = last.pre

\* an import from a directory that is not there
C11_Witness ==
    /\ last.op = "importConfigFromDirectory"
    /\ last.aux["directory"].s = DirX
    /\ Len(last.sigs) = 1

\* the open or the write of the last export callback failed
WriteFailed ==
    \/ Dirname(Target) \notin ExistingDirs
    \/ last.out["written"].n < Len(BodyBytes)

\* C12: an export callback without the error flag whose result holds
\* startup_script and whose open or write fails emits one notification on the
\* error channel (not the server-error one), tagged with the device id and
\* naming the target path, and raises nothing.
C12_ExportWriteFails ==
    (/\ last.op \in ExportCallbacks /\ ~last.error
     /\ "startup_script" \in DOMAIN last.arg
     /\ WriteFailed)
    => /\ Len(last.sigs) = 1
       /\ last.sigs[1].chan = "error"
       /\ last.sigs[1].id = DeviceId
       /\ last.sigs[1].args = <<StrV(Target)>>
       /\ ~last.raised

\* a write that stopped after the first of the two bytes of the script
C12_Witness ==
    /\ last.op = "_exportConfigToDirectoryCallback" /\ ~last.error
    /\ Target \in DOMAIN fs /\ fs[Target] = <<195>>
    /\ Len(last.sigs) = 1

\* C14: what load hands to create are properties that are keys of the settings
\* map, without name, which goes separately as the device's name; and for a
\* record that resolves to a non-null id the creation parameters hold no
\* startup_script, even when the properties do.
C14_LoadSettingsFiltered ==
    (last.op = "load" /\ ~last.raised) =>
        /\ Len(last.net) = 1
        /\ DOMAIN last.net[1].params \subseteq (DOMAIN last.arg \cap DOMAIN last.pre) \ {"name"}
        /\ \A k \in DOMAIN last.net[1].params : last.net[1].params[k] = last.arg[k]
        /\ last.net[1].name = last.arg["name"]
        /\ last.net[1].node_id # None => "startup_script" \notin DOMAIN last.net[1].params

\* a record with an id whose properties hold a script
C14_Witness ==
    /\ last.op = "load" /\ ~last.raised
    /\ "startup_script" \in DOMAIN last.arg
    /\ last.net[1].node_id = StrV(IdN2)
    /\ last.net[1].params = EmptyDict

\* C16: the properties dump adds are the settings entries whose value is
\* neither null nor the empty string, startup_script apart: startup_script_path
\* by its file name, every other one with its stored value.
C16_DumpProperties ==
    last.op = "dump" =>
        /\ DOMAIN last.out =
              { k \in DOMAIN last.pre :
                    last.pre[k] # None /\ last.pre[k] # StrV(<<>>) /\ k # "startup_script" }
        /\ \A k \in DOMAIN last.out :
              IF k = "startup_script_path"
              THEN \/ IsFinalSegment(last.out[k].s, last.pre[k].s)
                   \/ (last.out[k] = last.pre[k] /\ \A i \in 1..Len(last.pre[k].s) : last.pre[k].s[i] # 47)
              ELSE last.out[k] = last.pre[k]

\* a dump of a device with a console, an empty console host and a script
C16_Witness ==
    /\ last.op = "dump"
    /\ last.pre["console"] = IntV(5000)
    /\ last.pre["console_host"] = StrV(<<>>)
    /\ last.pre["startup_script"] = StrV(<<>>)
    /\ DOMAIN last.out = {"name", "console"}

\* C15: importConfig(path) is update with script_file set to path: without a
\* file at path, or when it cannot be read, there is no update request, no
\* notification and no change of the settings; when the file is read a request
\* goes out exactly when its content differs from the stored startup_script,
\* and its patch holds startup_script with the content and nothing else.
C15_ImportConfig ==
    last.op = "importConfig" =>
        /\ settings = last.pre
        /\ last.sigs = <<>>
        /\ IF ArgFileRead /\ ArgValue("startup_script") # last.pre["startup_script"]
           THEN /\ Len(last.net) = 1 /\ last.net[1].kind = "update"
                /\ DOMAIN last.net[1].params = {"startup_script"}
                /\ last.net[1].params["startup_script"] = StrV(Utf8Decode(last.fsPre[ArgPath]))
           ELSE last.net = <<>>

\* an import of a file that holds what the device already has
C15_Witness ==
    /\ last.op = "importConfig"
    /\ ArgFileRead
    /\ last.pre["startup_script"] = StrV(ScriptE)
    /\ last.net = <<>>

\* C20: a directory export and a directory import agree on the file: when
\* exportConfigToDirectory(d) has completed without error, with a script in the
\* response and a successful write, the importConfigFromDirectory(d) that
\* follows under the same name emits no warning and hands update a script_file
\* that is the path the export wrote, d/<normalized name>_startup.vpc.
C20_ExportThenImport ==
    (/\ last.op = "importConfigFromDirectory"
     /\ "exported" \in DOMAIN last.aux
     /\ last.aux["into"] = last.aux["directory"])
    => /\ last.sigs = <<>>
       /\ last.arg = [k \in {"script_file"} |-> last.aux["exported"]]
       /\ last.aux["exported"].s =
              PathJoin(last.aux["directory"].s, normalize_filename(DeviceName)) \o StartupSuffix
       /\ last.aux["exported"].s \in DOMAIN last.fsPre

\* an import from the directory the device "P 1" has just been exported to,
\* which reads the script back and asks the server to store it
C20_Witness ==
    /\ last.op = "importConfigFromDirectory"
    /\ "exported" \in DOMAIN last.aux
    /\ last.aux["into"] = last.aux["directory"]
    /\ Len(last.net) = 1
    /\ last.net[1].params = [k \in {"startup_script"} |-> StrV(ScriptE)]

ResponseCallbacks == {"_updateCallback", "_exportConfigCallback", "_exportConfigToDirectoryCallback"}

\* the handlers that end in update
UpdateCallers == {"update", "importConfig", "importConfigFromDirectory"}

\* C13: nothing is retried: an exportConfig or exportConfigToDirectory puts
\* exactly one read request on the wire, an update (called directly or by an
\* import) at most one update request, and _updateCallback,
\* _exportConfigCallback and _exportConfigToDirectoryCallback none: a callback
\* takes its request off the wire and adds nothing, on error or not, and a
\* failed read is reported once.
C13_NoRetries ==
    [][ /\ last'.op \in {"exportConfig", "exportConfigToDirectory"} =>
              /\ Len(last'.net) = 1 /\ last'.net[1].kind = "get"
              /\ Len(inflight') = Len(inflight) + 1
        /\ last'.op \in UpdateCallers =>
              /\ Len(last'.net) <= 1
              /\ \A i \in 1..Len(last'.net) : last'.net[i].kind = "update"
              /\ Len(inflight') = Len(inflight) + Len(last'.net)
        /\ last'.op \in ResponseCallbacks =>
              /\ last'.net = <<>>
              /\ Len(inflight') = Len(inflight) - 1
              /\ last'.error => Len(last'.sigs) = 1 ]_vars

\* an export whose read the server answered with an error, nothing on the wire after it
C13_Witness ==
    /\ last.op = "_exportConfigCallback" /\ last.error
    /\ last.net = <<>> /\ inflight = <<>>
    /\ Len(last.sigs) = 1

\* C17: update, importConfig, importConfigFromDirectory, exportConfig,
\* exportConfigToDirectory, the two export callbacks, dump and info leave
\* every value of the settings as it was; after an update that sent a patch
\* the settings still differ from the patch on each of its keys.
C17_OnlyCallbacksWriteSettings ==
    /\ last.op \in UpdateCallers \cup {"exportConfig", "exportConfigToDirectory",
                                       "_exportConfigCallback", "_exportConfigToDirectoryCallback",
                                       "dump", "info"}
          => settings = last.pre
    /\ last.op = "update" =>
          \A i \in 1..Len(last.net) :
              \A k \in DOMAIN last.net[i].params : settings[k] # last.net[i].params[k]

\* an update that asked for a console port the device does not have yet
C17_Witness ==
    /\ last.op = "update"
    /\ Len(last.net) = 1
    /\ last.net[1].params = [k \in {"console"} |-> IntV(5000)]
    /\ settings["console"] = None

\* C18: the settings map has the same keys in every state: the name and the
\* four keys set at construction.
C18_SettingsKeysFixed ==
    DOMAIN settings = {"name", "console_host", "startup_script", "startup_script_path", "console"}

\* a response with a key the settings lack has been merged
C18_Witness ==
    /\ last.op = "_updateCallback"
    /\ DOMAIN last.arg = {"node_directory"}
    /\ DOMAIN settings = DOMAIN last.pre

====
